---- MODULE Spec2Model ----
(***************************************************************************)
(* Model of the contract feature extractor (app/services.py, app/utils.py) *)
(* A request is an ApplicationData (id, application_date, contracts); the  *)
(* extractor resolves the application date, decodes the contract list and  *)
(* reduces it to three features.  Strings are sequences of one-character   *)
(* strings, so that splitting, digit parsing and JSON decoding are         *)
(* computed and not assumed.  Python values are tagged records.  The two   *)
(* endpoints of app/main.py and the CSV driver of scripts/process_csv.py   *)
(* call the extractor; each has its own specification further down.        *)
(***************************************************************************)
EXTENDS Integers, Sequences, FiniteSets, TLC

VARIABLES now, pc, req, resolved, out, again, batch, results, reply, mock

vars == <<now, pc, req, resolved, out, again, batch, results, reply, mock>>

\* what the endpoints and the CSV driver hold: the records of a batch, the
\* results appended so far, what is handed back, and the patch a test has
\* put in place
drivers == <<batch, results, reply, mock>>

(***************************************************************************)
(* Bounds of the model.                                                    *)
(***************************************************************************)
\* longest contract list the requests carry
MaxContracts == 2
\* number of half-day steps the wall clock may advance
MaxTicks == 1

(***************************************************************************)
(* Python values.                                                          *)
(***************************************************************************)
PyNone == [ty |-> "none"]
PyBool(b) == [ty |-> "bool", b |-> b]
PyInt(n) == [ty |-> "int", i |-> n]
\* a float: a finite value (kept exact, as an integer) or NaN
PyFloat(n) == [ty |-> "float", f |-> n, nan |-> FALSE]
PyNaN == [ty |-> "float", f |-> 0, nan |-> TRUE]
PyStr(s) == [ty |-> "str", s |-> s]
PyList(l) == [ty |-> "list", l |-> l]
PyDict(d) == [ty |-> "dict", d |-> d]
\* a naive datetime: proleptic Gregorian ordinal of the day, second of the day
PyDatetime(o, s) == [ty |-> "datetime", ord |-> o, sec |-> s]

\* bool(x)
Truthy(x) ==
  CASE x.ty = "none" -> FALSE
    [] x.ty = "bool" -> x.b
    [] x.ty = "int" -> x.i # 0
    [] x.ty = "float" -> x.nan \/ x.f # 0
    [] x.ty = "str" -> Len(x.s) > 0
    [] x.ty = "list" -> Len(x.l) > 0
    [] x.ty = "dict" -> DOMAIN x.d # {}
    [] x.ty = "datetime" -> TRUE

\* hash(x) succeeds: lists and dicts are unhashable
Hashable(x) == x.ty \notin {"list", "dict"}

\* dict.get(key, default)
DictGet(d, key, default) == IF key \in DOMAIN d.d THEN d.d[key] ELSE default

(***************************************************************************)
(* Characters and digits.                                                  *)
(***************************************************************************)
Digits == <<"0", "1", "2", "3", "4", "5", "6", "7", "8", "9">>

IsDigit(c) == \E i \in 1..10 : Digits[i] = c

DigitVal(c) == (CHOOSE i \in 1..10 : Digits[i] = c) - 1

AllDigits(s) == \A i \in 1..Len(s) : IsDigit(s[i])

RECURSIVE DecVal(_)
\* value of a string of decimal digits
DecVal(s) ==
  IF s = <<>> THEN 0
  ELSE 10 * DecVal(SubSeq(s, 1, Len(s) - 1)) + DigitVal(s[Len(s)])

RECURSIVE Split(_, _)
\* str.split(sep) for a one-character separator
Split(s, sep) ==
  IF \E i \in 1..Len(s) : s[i] = sep
  THEN LET i == CHOOSE j \in 1..Len(s) :
                  s[j] = sep /\ \A k \in 1..(j - 1) : s[k] # sep
       IN <<SubSeq(s, 1, i - 1)>> \o Split(SubSeq(s, i + 1, Len(s)), sep)
  ELSE <<s>>

RECURSIVE Replace(_, _, _)
\* str.replace(old, new) for a one-character old
Replace(s, old, new) ==
  IF s = <<>> THEN <<>>
  ELSE (IF Head(s) = old THEN new ELSE <<Head(s)>>) \o Replace(Tail(s), old, new)

(***************************************************************************)
(* The calendar of datetime.                                               *)
(***************************************************************************)
IsLeap(y) == y % 4 = 0 /\ (y % 100 # 0 \/ y % 400 = 0)

DaysInMonth(y, m) ==
  IF m = 2 THEN (IF IsLeap(y) THEN 29 ELSE 28)
  ELSE IF m \in {4, 6, 9, 11} THEN 30 ELSE 31

RECURSIVE DaysBeforeMonth(_, _)
DaysBeforeMonth(y, m) ==
  IF m = 1 THEN 0 ELSE DaysBeforeMonth(y, m - 1) + DaysInMonth(y, m - 1)

DaysBeforeYear(y) ==
  LET p == y - 1 IN p * 365 + (p \div 4) - (p \div 100) + (p \div 400)

\* date(y, m, d).toordinal()
Ymd2Ord(y, m, d) == DaysBeforeYear(y) + DaysBeforeMonth(y, m) + d

ValidDate(y, m, d) ==
  /\ y >= 1 /\ y <= 9999
  /\ m >= 1 /\ m <= 12
  /\ d >= 1 /\ d <= DaysInMonth(y, m)

\* date.min.toordinal(): an earlier datetime is an OverflowError
MinOrdinal == Ymd2Ord(1, 1, 1)

(***************************************************************************)
(* app/utils.py                                                            *)
(***************************************************************************)
\* strptime's %Y: exactly four digits
MatchesY(p) == Len(p) = 4 /\ AllDigits(p)

\* strptime's %m: 1[0-2]|0[1-9]|[1-9]
MatchesM(p) ==
  /\ Len(p) \in {1, 2}
  /\ AllDigits(p)
  /\ DecVal(p) >= 1 /\ DecVal(p) <= 12

\* strptime's %d: 3[01]|[12]\d|0[1-9]|[1-9]| [1-9]
MatchesD(p) ==
  \/ /\ Len(p) \in {1, 2}
     /\ AllDigits(p)
     /\ DecVal(p) >= 1 /\ DecVal(p) <= 31
  \/ /\ Len(p) = 2
     /\ p[1] = " "
     /\ IsDigit(p[2]) /\ p[2] # "0"

DayOf(p) == IF p[1] = " " THEN DigitVal(p[2]) ELSE DecVal(p)

\* a slip: the number of parts is not looked at, parts after the third are
\* dropped
parse_date_first_three_parts(x) ==
  IF ~Truthy(x) THEN PyNone
  ELSE IF x.ty # "str" THEN PyNone
  ELSE LET parts == Split(x.s, ".") IN
    IF Len(parts) < 3 THEN PyNone
    ELSE IF ~(MatchesY(parts[3]) /\ MatchesM(parts[2]) /\ MatchesD(parts[1]))
         THEN PyNone
    ELSE LET y == DecVal(parts[3])
             m == DecVal(parts[2])
             d == DayOf(parts[1])
         IN IF ValidDate(y, m, d) THEN PyDatetime(Ymd2Ord(y, m, d), 0)
            ELSE PyNone

\* parse_date: a datetime at midnight, or None
parse_date(x) ==
  IF ~Truthy(x) THEN PyNone
  ELSE IF x.ty # "str" THEN PyNone
  ELSE LET parts == Split(x.s, ".") IN
    IF Len(parts) # 3 THEN PyNone
    ELSE IF ~(MatchesY(parts[3]) /\ MatchesM(parts[2]) /\ MatchesD(parts[1]))
         THEN PyNone
    ELSE LET y == DecVal(parts[3])
             m == DecVal(parts[2])
             d == DayOf(parts[1])
         IN IF ValidDate(y, m, d) THEN PyDatetime(Ymd2Ord(y, m, d), 0)
            ELSE PyNone

(***************************************************************************)
(* app/services.py: the application date                                   *)
(***************************************************************************)
Num2(s, i) == DecVal(SubSeq(s, i, i + 1))

\* "HH:MM" at position i of s, with HH in 0..23 and MM in 0..59
IsHHMM(s, i) ==
  /\ IsDigit(s[i]) /\ IsDigit(s[i + 1])
  /\ s[i + 2] = ":"
  /\ IsDigit(s[i + 3]) /\ IsDigit(s[i + 4])
  /\ Num2(s, i) <= 23
  /\ Num2(s, i + 3) <= 59

\* "YYYY-MM-DD" at the head of s, a date of the calendar
IsIsoDate(s) ==
  /\ Len(s) >= 10
  /\ AllDigits(SubSeq(s, 1, 4))
  /\ s[5] = "-"
  /\ AllDigits(SubSeq(s, 6, 7))
  /\ s[8] = "-"
  /\ AllDigits(SubSeq(s, 9, 10))
  /\ ValidDate(DecVal(SubSeq(s, 1, 4)), Num2(s, 6), Num2(s, 9))

\* "HH:MM:SS" at positions 12..19 of s
IsIsoTime(s) ==
  /\ Len(s) >= 19
  /\ IsHHMM(s, 12)
  /\ s[17] = ":"
  /\ IsDigit(s[18]) /\ IsDigit(s[19])
  /\ Num2(s, 18) <= 59

\* "+HH:MM" or "-HH:MM" at positions 20..25 of s
IsIsoOffset(s) ==
  /\ Len(s) = 25
  /\ s[20] \in {"+", "-"}
  /\ IsHHMM(s, 21)

\* datetime.fromisoformat on the shapes YYYY-MM-DD, YYYY-MM-DDTHH:MM:SS and
\* YYYY-MM-DDTHH:MM:SS+HH:MM (any one character may stand for the T); every
\* other string is a ValueError.  The result keeps the offset as tzinfo.
fromisoformat(s) ==
  IF ~IsIsoDate(s) THEN [ok |-> FALSE]
  ELSE LET o == Ymd2Ord(DecVal(SubSeq(s, 1, 4)), Num2(s, 6), Num2(s, 9)) IN
    IF Len(s) = 10
    THEN [ok |-> TRUE, ord |-> o, sec |-> 0, aware |-> FALSE, utcoffset |-> 0]
    ELSE IF ~IsIsoTime(s) THEN [ok |-> FALSE]
    ELSE LET t == Num2(s, 12) * 3600 + Num2(s, 15) * 60 + Num2(s, 18) IN
      IF Len(s) = 19
      THEN [ok |-> TRUE, ord |-> o, sec |-> t, aware |-> FALSE, utcoffset |-> 0]
      ELSE IF ~IsIsoOffset(s) THEN [ok |-> FALSE]
      ELSE LET mins == Num2(s, 21) * 60 + Num2(s, 24) IN
        [ok |-> TRUE, ord |-> o, sec |-> t, aware |-> TRUE,
         utcoffset |-> IF s[20] = "-" THEN 0 - mins ELSE mins]

\* a slip: the fallback is taken for every string, as if no date ever parsed
_parse_application_date_always_now(date_str, clock) == clock

\* a slip: the fallback is the day of the clock at midnight, not now()
_parse_application_date_today(date_str, clock) ==
  IF date_str.ty # "str" THEN PyDatetime(clock.ord, 0)
  ELSE LET app_date == fromisoformat(Replace(date_str.s, "Z", <<"+", "0", "0", ":", "0", "0">>)) IN
    IF app_date.ok THEN PyDatetime(app_date.ord, app_date.sec)
    ELSE PyDatetime(clock.ord, 0)

\* a slip: the offset is converted (astimezone to UTC) before tzinfo is
\* dropped
_parse_application_date_in_utc(date_str, clock) ==
  IF date_str.ty # "str" THEN clock
  ELSE LET app_date == fromisoformat(Replace(date_str.s, "Z", <<"+", "0", "0", ":", "0", "0">>)) IN
    IF app_date.ok
    THEN LET t == app_date.sec - app_date.utcoffset * 60
         IN PyDatetime(app_date.ord + (t \div 86400), t % 86400)
    ELSE clock

\* _parse_application_date at wall-clock time clock: the written date and
\* time with tzinfo dropped, or the clock when the string does not parse
\* (ValueError) or is no string at all (AttributeError)
_parse_application_date(date_str, clock) ==
  IF date_str.ty # "str" THEN clock
  ELSE LET app_date == fromisoformat(Replace(date_str.s, "Z", <<"+", "0", "0", ":", "0", "0">>)) IN
    IF app_date.ok THEN PyDatetime(app_date.ord, app_date.sec)
    ELSE clock

(***************************************************************************)
(* json.loads.  The contracts text is kept as its sequence of lexemes: the *)
(* punctuation marks, string and number literals, the names true, false    *)
(* and null, the name NaN (which the decoder accepts although it is no     *)
(* JSON), and junk, any other run of characters.                           *)
(***************************************************************************)
Tok(t) == [t |-> t, s |-> <<>>, n |-> 0]
TokStr(s) == [t |-> "str", s |-> s, n |-> 0]
TokNum(n) == [t |-> "num", s |-> <<>>, n |-> n]

JSONDecodeError == [ok |-> FALSE]
Decoded(val, rest) == [ok |-> TRUE, val |-> val, rest |-> rest]

RECURSIVE ParseValue(_), ParseArray(_, _), ParseObject(_, _)
\* one JSON value at the head of toks, and the lexemes left after it
ParseValue(toks) ==
  IF toks = <<>> THEN JSONDecodeError
  ELSE LET h == Head(toks)
           r == Tail(toks)
       IN CASE h.t = "str" -> Decoded(PyStr(h.s), r)
            [] h.t = "num" -> Decoded(PyInt(h.n), r)
            [] h.t = "true" -> Decoded(PyBool(TRUE), r)
            [] h.t = "false" -> Decoded(PyBool(FALSE), r)
            [] h.t = "null" -> Decoded(PyNone, r)
            [] h.t = "NaN" -> Decoded(PyNaN, r)
            [] h.t = "[" ->
                 IF r # <<>> /\ Head(r).t = "]" THEN Decoded(PyList(<<>>), Tail(r))
                 ELSE ParseArray(r, <<>>)
            [] h.t = "{" ->
                 IF r # <<>> /\ Head(r).t = "}" THEN Decoded(PyDict(<<>>), Tail(r))
                 ELSE ParseObject(r, <<>>)
            [] OTHER -> JSONDecodeError

\* the elements of an array after its "[" (or after a ","), acc those before
ParseArray(toks, acc) ==
  LET e == ParseValue(toks) IN
    IF ~e.ok \/ e.rest = <<>> THEN JSONDecodeError
    ELSE LET sep == Head(e.rest).t IN
      IF sep = "]" THEN Decoded(PyList(Append(acc, e.val)), Tail(e.rest))
      ELSE IF sep = "," THEN ParseArray(Tail(e.rest), Append(acc, e.val))
      ELSE JSONDecodeError

\* the members of an object after its "{" (or after a ","); a repeated key
\* keeps its last value
ParseObject(toks, acc) ==
  IF Len(toks) < 2 \/ toks[1].t # "str" \/ toks[2].t # ":" THEN JSONDecodeError
  ELSE LET e == ParseValue(SubSeq(toks, 3, Len(toks))) IN
    IF ~e.ok \/ e.rest = <<>> THEN JSONDecodeError
    ELSE LET sep == Head(e.rest).t
             d == (toks[1].s :> e.val) @@ acc
         IN IF sep = "}" THEN Decoded(PyDict(d), Tail(e.rest))
            ELSE IF sep = "," THEN ParseObject(Tail(e.rest), d)
            ELSE JSONDecodeError

\* json.loads: the whole text is one value ("Extra data" otherwise)
json_loads(toks) ==
  LET e == ParseValue(toks) IN
    IF e.ok /\ e.rest = <<>> THEN e ELSE JSONDecodeError

(***************************************************************************)
(* app/services.py: the contract list                                      *)
(***************************************************************************)
\* _parse_contracts: never raises; what json.loads decoded (a list or not),
\* or the empty list
_parse_contracts(contracts_data) ==
  IF ~Truthy(contracts_data) THEN PyList(<<>>)
  ELSE IF contracts_data.ty = "list" THEN contracts_data
  ELSE IF contracts_data.ty # "str" THEN PyList(<<>>)
  ELSE LET e == json_loads(contracts_data.s) IN
    IF e.ok THEN e.val ELSE PyList(<<>>)

RECURSIVE SetToSeq(_)
SetToSeq(S) ==
  IF S = {} THEN <<>>
  ELSE LET x == CHOOSE y \in S : TRUE IN <<x>> \o SetToSeq(S \ {x})

\* iter(x) succeeds
Iterable(x) == x.ty \in {"list", "str", "dict"}

\* what "for contract in contracts" visits: the entries of a list, the
\* characters of a str, the keys of a dict
Items(x) ==
  CASE x.ty = "list" -> x.l
    [] x.ty = "str" -> [i \in 1..Len(x.s) |-> PyStr(<<x.s[i]>>)]
    [] x.ty = "dict" ->
         LET ks == SetToSeq(DOMAIN x.d) IN [i \in 1..Len(ks) |-> PyStr(ks[i])]

\* the outcome of a reduction: its value, or the exception it raised
Returned(v) == [exc |-> "", v |-> v]
Raised(e) == [exc |-> e, v |-> 0]

K_claim_date == <<"c", "l", "a", "i", "m", "_", "d", "a", "t", "e">>
K_contract_date ==
  <<"c", "o", "n", "t", "r", "a", "c", "t", "_", "d", "a", "t", "e">>
K_bank == <<"b", "a", "n", "k">>
K_loan_summa == <<"l", "o", "a", "n", "_", "s", "u", "m", "m", "a">>
K_summa == <<"s", "u", "m", "m", "a">>

\* timedelta(days=180)
WindowDays == 180

\* a slip: the upper end of the window is left out (< for <=)
InWindow_before_app_date(claim_date, app_date) ==
  LET first == app_date.ord - WindowDays IN
    /\ \/ first < claim_date.ord
       \/ first = claim_date.ord /\ app_date.sec <= claim_date.sec
    /\ \/ claim_date.ord < app_date.ord
       \/ claim_date.ord = app_date.ord /\ claim_date.sec < app_date.sec

\* date_180d_before <= claim_date <= app_date, claim_date at midnight
InWindow(claim_date, app_date) ==
  LET first == app_date.ord - WindowDays IN
    /\ \/ first < claim_date.ord
       \/ first = claim_date.ord /\ app_date.sec <= claim_date.sec
    /\ \/ claim_date.ord < app_date.ord
       \/ claim_date.ord = app_date.ord /\ claim_date.sec <= app_date.sec

\* a slip: the bank exclusion of the loan sum applied to the claims too
IsRecentClaim_of_other_banks(contract, app_date) ==
  /\ contract.ty = "dict"
  /\ DictGet(contract, K_bank, PyNone) \notin
       {PyStr(<<"L", "I", "Z">>), PyStr(<<"L", "O", "M">>),
        PyStr(<<"M", "K", "O">>), PyStr(<<"S", "U", "G">>), PyNone}
  /\ LET claim_date == parse_date(DictGet(contract, K_claim_date, PyStr(<<>>))) IN
       /\ Truthy(claim_date)
       /\ InWindow(claim_date, app_date)

\* the condition of the generator expression of _calculate_recent_claims
IsRecentClaim(contract, app_date) ==
  /\ contract.ty = "dict"
  /\ LET claim_date == parse_date(DictGet(contract, K_claim_date, PyStr(<<>>))) IN
       /\ Truthy(claim_date)
       /\ InWindow(claim_date, app_date)

RECURSIVE CountClaims(_, _)
CountClaims(items, app_date) ==
  IF items = <<>> THEN 0
  ELSE (IF IsRecentClaim(Head(items), app_date) THEN 1 ELSE 0)
       + CountClaims(Tail(items), app_date)

\* a slip: the count is returned as it is, 0 included
_calculate_recent_claims_no_sentinel(contracts, app_date) ==
  IF app_date.ord - WindowDays < MinOrdinal THEN Raised("OverflowError")
  ELSE IF ~Iterable(contracts) THEN Raised("TypeError")
  ELSE Returned(CountClaims(Items(contracts), app_date))

_calculate_recent_claims(contracts, app_date) ==
  IF app_date.ord - WindowDays < MinOrdinal THEN Raised("OverflowError")
  ELSE IF ~Iterable(contracts) THEN Raised("TypeError")
  ELSE LET claim_count == CountClaims(Items(contracts), app_date) IN
    Returned(IF claim_count > 0 THEN claim_count ELSE -3)

\* a slip: a code is missing from the set
excluded_banks_without_MKO ==
  {PyStr(<<"L", "I", "Z">>), PyStr(<<"L", "O", "M">>), PyStr(<<"S", "U", "G">>),
   PyNone}

\* excluded_banks of _calculate_disbursed_loans
excluded_banks ==
  {PyStr(<<"L", "I", "Z">>), PyStr(<<"L", "O", "M">>), PyStr(<<"M", "K", "O">>),
   PyStr(<<"S", "U", "G">>), PyNone}

\* float(x) of a str: an optional sign and decimal digits (the requests of
\* the model hold no other numeric spelling); a ValueError otherwise
FloatOfStr(s) ==
  LET signed == s # <<>> /\ s[1] \in {"+", "-"}
      digits == IF signed THEN Tail(s) ELSE s
  IN IF digits = <<>> \/ ~AllDigits(digits) THEN Raised("ValueError")
     ELSE Returned(IF signed /\ s[1] = "-" THEN 0 - DecVal(digits)
                   ELSE DecVal(digits))

\* a slip: only numbers convert, a numeric string is a ValueError
float_of_numbers_only(x) ==
  CASE x.ty = "int" -> [exc |-> "", v |-> x.i, nan |-> FALSE]
    [] x.ty = "bool" -> [exc |-> "", v |-> IF x.b THEN 1 ELSE 0, nan |-> FALSE]
    [] x.ty = "float" -> [exc |-> "", v |-> x.f, nan |-> x.nan]
    [] x.ty = "str" -> [exc |-> "ValueError", v |-> 0, nan |-> FALSE]
    [] OTHER -> [exc |-> "TypeError", v |-> 0, nan |-> FALSE]

\* float(x): exc, or the value v (nan set for NaN)
float(x) ==
  CASE x.ty = "int" -> [exc |-> "", v |-> x.i, nan |-> FALSE]
    [] x.ty = "bool" -> [exc |-> "", v |-> IF x.b THEN 1 ELSE 0, nan |-> FALSE]
    [] x.ty = "float" -> [exc |-> "", v |-> x.f, nan |-> x.nan]
    [] x.ty = "str" ->
         LET f == FloatOfStr(x.s) IN [exc |-> f.exc, v |-> f.v, nan |-> FALSE]
    [] OTHER -> [exc |-> "TypeError", v |-> 0, nan |-> FALSE]

RECURSIVE SumLoans_without_try(_, _)
\* a slip: float() is called outside a try, its exception leaves the loop
SumLoans_without_try(items, loan_sum) ==
  IF items = <<>> THEN loan_sum
  ELSE LET contract == Head(items) IN
    IF contract.ty # "dict" THEN SumLoans_without_try(Tail(items), loan_sum)
    ELSE IF ~Truthy(DictGet(contract, K_contract_date, PyNone))
         THEN SumLoans_without_try(Tail(items), loan_sum)
    ELSE IF ~Hashable(DictGet(contract, K_bank, PyNone))
         THEN [exc |-> "TypeError", v |-> 0, nan |-> FALSE]
    ELSE IF DictGet(contract, K_bank, PyNone) \in excluded_banks
         THEN SumLoans_without_try(Tail(items), loan_sum)
    ELSE IF ~Truthy(DictGet(contract, K_loan_summa, PyNone))
         THEN SumLoans_without_try(Tail(items), loan_sum)
    ELSE LET f == float(contract.d[K_loan_summa]) IN
      IF f.exc # "" THEN [exc |-> f.exc, v |-> 0, nan |-> FALSE]
      ELSE SumLoans_without_try(Tail(items),
                                [exc |-> "", v |-> loan_sum.v + f.v,
                                 nan |-> loan_sum.nan \/ f.nan])

RECURSIVE SumLoans(_, _)
\* the loop of _calculate_disbursed_loans from the entries items on, loan_sum
\* the sum so far: the final sum, or the exception that left the loop
SumLoans(items, loan_sum) ==
  IF items = <<>> THEN loan_sum
  ELSE LET contract == Head(items) IN
    IF contract.ty # "dict" THEN SumLoans(Tail(items), loan_sum)
    ELSE IF ~Truthy(DictGet(contract, K_contract_date, PyNone))
         THEN SumLoans(Tail(items), loan_sum)
    ELSE IF ~Hashable(DictGet(contract, K_bank, PyNone))
         THEN [exc |-> "TypeError", v |-> 0, nan |-> FALSE]
    ELSE IF DictGet(contract, K_bank, PyNone) \in excluded_banks
         THEN SumLoans(Tail(items), loan_sum)
    ELSE IF ~Truthy(DictGet(contract, K_loan_summa, PyNone))
         THEN SumLoans(Tail(items), loan_sum)
    ELSE LET f == float(contract.d[K_loan_summa]) IN
      IF f.exc # "" THEN SumLoans(Tail(items), loan_sum)
      ELSE SumLoans(Tail(items),
                    [exc |-> "", v |-> loan_sum.v + f.v,
                     nan |-> loan_sum.nan \/ f.nan])

\* a slip: the sentinel replaces a sum of 0 only (!= 0 for > 0)
_calculate_disbursed_loans_nonzero(contracts) ==
  IF ~Iterable(contracts) THEN Raised("TypeError")
  ELSE LET loan_sum == SumLoans(Items(contracts),
                                [exc |-> "", v |-> 0, nan |-> FALSE])
       IN IF loan_sum.exc # "" THEN Raised(loan_sum.exc)
          ELSE Returned(IF loan_sum.nan \/ loan_sum.v # 0 THEN loan_sum.v
                        ELSE -1)

_calculate_disbursed_loans(contracts) ==
  IF ~Iterable(contracts) THEN Raised("TypeError")
  ELSE LET loan_sum == SumLoans(Items(contracts),
                                [exc |-> "", v |-> 0, nan |-> FALSE])
       IN IF loan_sum.exc # "" THEN Raised(loan_sum.exc)
          ELSE Returned(IF ~loan_sum.nan /\ loan_sum.v > 0 THEN loan_sum.v
                        ELSE -1)

\* a slip: the comparison is turned round (< for >), the earliest date wins
Later_turned_round(a, b) == a.ord < b.ord \/ (a.ord = b.ord /\ a.sec < b.sec)

\* a slip: the comparison is left out, the last dated contract wins
Later_whatever(a, b) == a.ord = a.ord /\ b.ord = b.ord

\* a > b for two datetimes
Later(a, b) == a.ord > b.ord \/ (a.ord = b.ord /\ a.sec > b.sec)

RECURSIVE LastLoan(_, _)
\* the loop of _calculate_days_since_last_loan: the final last_loan_date
LastLoan(items, last_loan_date) ==
  IF items = <<>> THEN last_loan_date
  ELSE LET contract == Head(items) IN
    IF contract.ty # "dict" THEN LastLoan(Tail(items), last_loan_date)
    ELSE IF ~(Truthy(DictGet(contract, K_contract_date, PyNone))
              /\ Truthy(DictGet(contract, K_summa, PyNone)))
         THEN LastLoan(Tail(items), last_loan_date)
    ELSE LET contract_date == parse_date(contract.d[K_contract_date]) IN
      IF Truthy(contract_date)
         /\ (~Truthy(last_loan_date) \/ Later(contract_date, last_loan_date))
      THEN LastLoan(Tail(items), contract_date)
      ELSE LastLoan(Tail(items), last_loan_date)

\* (a - b).days for a datetime b at midnight
DaysBetween(a, b) == a.ord - b.ord

_calculate_days_since_last_loan(contracts, app_date) ==
  IF ~Iterable(contracts) THEN Raised("TypeError")
  ELSE LET last_loan_date == LastLoan(Items(contracts), PyNone) IN
    Returned(IF Truthy(last_loan_date) THEN DaysBetween(app_date, last_loan_date)
             ELSE -1)

(***************************************************************************)
(* app/services.py: calculate_features                                     *)
(***************************************************************************)
ApplicationData(id, application_date, contracts) ==
  [id |-> id, application_date |-> application_date, contracts |-> contracts]

FeatureResponse(id, claims, loans, days) ==
  [raised |-> "", id |-> id, tot_claim_cnt_l180d |-> claims,
   disb_bank_loan_wo_tbc |-> loans, day_sinlastloan |-> days]

\* the call left by an exception instead of a FeatureResponse
Failure(e) == [raised |-> e]

\* a slip: the default of tot_claim_cnt_l180d is that of the other features
calculate_features_wrong_default(app_data, clock) ==
  LET app_date == _parse_application_date(app_data.application_date, clock)
      contracts == _parse_contracts(app_data.contracts)
  IN IF ~Truthy(contracts) THEN FeatureResponse(app_data.id, -1, -1, -1)
     ELSE LET claims == _calculate_recent_claims(contracts, app_date)
              loans == _calculate_disbursed_loans(contracts)
              days == _calculate_days_since_last_loan(contracts, app_date)
          IN IF claims.exc # "" THEN Failure(claims.exc)
             ELSE IF loans.exc # "" THEN Failure(loans.exc)
             ELSE IF days.exc # "" THEN Failure(days.exc)
             ELSE FeatureResponse(app_data.id, claims.v, loans.v, days.v)

\* calculate_features called when the wall clock shows clock
calculate_features(app_data, clock) ==
  LET app_date == _parse_application_date(app_data.application_date, clock)
      contracts == _parse_contracts(app_data.contracts)
  IN IF ~Truthy(contracts) THEN FeatureResponse(app_data.id, -3, -1, -1)
     ELSE LET claims == _calculate_recent_claims(contracts, app_date)
              loans == _calculate_disbursed_loans(contracts)
              days == _calculate_days_since_last_loan(contracts, app_date)
          IN IF claims.exc # "" THEN Failure(claims.exc)
             ELSE IF loans.exc # "" THEN Failure(loans.exc)
             ELSE IF days.exc # "" THEN Failure(days.exc)
             ELSE FeatureResponse(app_data.id, claims.v, loans.v, days.v)

(***************************************************************************)
(* The requests of the model.  Texts are written by formatting, as the     *)
(* tests write them with json.dumps, and read back by the parsers above.   *)
(***************************************************************************)
Dig2(n) == <<Digits[(n \div 10) + 1], Digits[(n % 10) + 1]>>
Dig4(n) == Dig2(n \div 100) \o Dig2(n % 100)

\* "DD.MM.YYYY"
DMY(d, m, y) == PyStr(Dig2(d) \o <<".">> \o Dig2(m) \o <<".">> \o Dig4(y))

\* "YYYY-MM-DD" and "YYYY-MM-DDTHH:00:00"
IsoDate(y, m, d) == Dig4(y) \o <<"-">> \o Dig2(m) \o <<"-">> \o Dig2(d)
IsoDateTime(y, m, d, h) ==
  IsoDate(y, m, d) \o <<"T">> \o Dig2(h) \o <<":", "0", "0", ":", "0", "0">>

RECURSIVE json_dumps(_), DumpItems(_), DumpMembers(_, _)
\* json.dumps: the lexemes of the text of a value
json_dumps(x) ==
  CASE x.ty = "none" -> <<Tok("null")>>
    [] x.ty = "bool" -> <<Tok(IF x.b THEN "true" ELSE "false")>>
    [] x.ty = "int" -> <<TokNum(x.i)>>
    [] x.ty = "float" -> <<IF x.nan THEN Tok("NaN") ELSE TokNum(x.f)>>
    [] x.ty = "str" -> <<TokStr(x.s)>>
    [] x.ty = "list" -> <<Tok("[")>> \o DumpItems(x.l) \o <<Tok("]")>>
    [] x.ty = "dict" ->
         <<Tok("{")>> \o DumpMembers(x.d, SetToSeq(DOMAIN x.d)) \o <<Tok("}")>>

DumpItems(l) ==
  IF l = <<>> THEN <<>>
  ELSE json_dumps(Head(l))
       \o (IF Len(l) > 1 THEN <<Tok(",")>> ELSE <<>>) \o DumpItems(Tail(l))

DumpMembers(d, keys) ==
  IF keys = <<>> THEN <<>>
  ELSE <<TokStr(Head(keys)), Tok(":")>> \o json_dumps(d[Head(keys)])
       \o (IF Len(keys) > 1 THEN <<Tok(",")>> ELSE <<>>)
       \o DumpMembers(d, Tail(keys))

\* a field left out of a contract
Absent == [ty |-> "absent"]

\* a contract object with the fields that are not Absent
Contract(claim_date, contract_date, bank, loan_summa, summa) ==
  LET all == (K_claim_date :> claim_date) @@ (K_contract_date :> contract_date)
             @@ (K_bank :> bank) @@ (K_loan_summa :> loan_summa)
             @@ (K_summa :> summa)
      present == {k \in DOMAIN all : all[k] # Absent}
  IN PyDict([k \in present |-> all[k]])

\* the day of the application dates of the model, 2024-06-29, and the dates
\* around it: on the day, 180 and 181 days before, 2 days after
D_on == DMY(29, 6, 2024)
D_180 == DMY(1, 1, 2024)
D_181 == DMY(31, 12, 2023)
D_after == DMY(1, 7, 2024)
D_bad == DMY(32, 13, 2023)

Bank(a, b, c) == PyStr(<<a, b, c>>)

\* the entries contract lists are made of
Entries ==
  { PyNone,
    PyStr(<<"x">>),
    PyDict(<<>>),
    Contract(D_on, D_on, Bank("0", "0", "1"), PyInt(5000), PyInt(5000)),
    Contract(D_181, D_181, Bank("0", "0", "1"), PyInt(0), PyInt(5)),
    Contract(D_180, D_180, Bank("L", "I", "Z"), PyInt(3000), PyInt(3000)),
    Contract(D_after, D_after, Bank("0", "0", "2"), PyStr(<<"7", "0", "0">>),
             PyStr(<<"x">>)),
    Contract(Absent, D_on, PyList(<<Bank("0", "0", "1")>>), PyInt(5), Absent),
    Contract(D_bad, D_bad, Bank("0", "0", "1"), PyStr(<<"x">>), PyStr(<<"x">>)),
    Contract(Absent, D_181, Bank("0", "0", "1"), PyInt(-7000), PyInt(0)),
    Contract(Absent, D_on, PyNone, PyInt(100), PyInt(100)),
    Contract(D_180, D_180, Absent, PyInt(200), Absent),
    Contract(Absent, D_bad, Bank("M", "K", "O"), PyInt(40), Absent),
    Contract(Absent, D_bad, Bank("L", "O", "M"), PyInt(50), Absent),
    Contract(Absent, D_bad, Bank("S", "U", "G"), PyInt(60), Absent) }

RECURSIVE ListsUpTo(_)
\* the lists of at most n entries
ListsUpTo(n) ==
  IF n = 0 THEN {<<>>}
  ELSE LET shorter == ListsUpTo(n - 1) IN
    shorter \cup {Append(l, e) : l \in {k \in shorter : Len(k) = n - 1},
                                 e \in Entries}

\* texts that are no JSON array: other JSON values, the decoder's NaN, and
\* texts that do not decode
OtherTexts ==
  { <<>>,
    <<TokNum(5)>>,
    <<TokNum(0)>>,
    <<Tok("true")>>,
    <<Tok("null")>>,
    <<TokStr(<<"a", "b">>)>>,
    <<Tok("{"), TokStr(<<"n", "o", "t">>), Tok(":"), TokStr(<<"a">>), Tok("}")>>,
    <<Tok("{"), Tok("}")>>,
    <<Tok("NaN")>>,
    <<Tok("["), Tok("NaN"), Tok("]")>>,
    <<Tok("junk"), Tok("junk"), Tok("junk")>>,
    <<Tok("["), TokNum(1), Tok(","), Tok("]")>>,
    <<Tok("["), Tok("{"), Tok("}")>>,
    <<Tok("["), Tok("]"), Tok("["), Tok("]")>>,
    <<Tok("{"), TokStr(<<"a">>), TokNum(1), Tok("}")>> }

\* the contracts field: null, or a text
ContractsFields ==
  {PyNone} \cup {PyStr(json_dumps(PyList(l))) : l \in ListsUpTo(MaxContracts)}
           \cup {PyStr(t) : t \in OtherTexts}

\* the application_date field: midnight, noon, noon with a Z, and a text
\* that is no date
ApplicationDates ==
  { PyStr(IsoDateTime(2024, 6, 29, 0)),
    PyStr(IsoDateTime(2024, 6, 29, 12)),
    PyStr(IsoDateTime(2024, 6, 29, 12) \o <<"Z">>),
    PyStr(<<"i", "n", "v", "a", "l", "i", "d">>) }

Ids == {1234, 5678}

Requests ==
  {ApplicationData(id, d, c) : id \in Ids, d \in ApplicationDates,
                               c \in ContractsFields}

(***************************************************************************)
(* The service: a request is computed, possibly computed a second time,    *)
(* and answered, while the wall clock advances.                            *)
(***************************************************************************)
\* the wall clock starts at midnight of 2024-06-29 and advances by half days
HalfDay == 12 * 3600

ClockAt(tick) ==
  PyDatetime(Ymd2Ord(2024, 6, 29) + (tick \div 2), (tick % 2) * HalfDay)

NoRequest == [id |-> 0]
NoResult == [raised |-> "not called"]
NoReply == [status |-> 0]

Init ==
  /\ now = 0
  /\ pc = "idle"
  /\ req = NoRequest
  /\ resolved = PyNone
  /\ out = NoResult
  /\ again = NoResult
  /\ batch = <<>>
  /\ results = <<>>
  /\ reply = NoReply
  /\ mock = "none"

\* datetime.now() moves on
Tick ==
  /\ now < MaxTicks
  /\ now' = now + 1
  /\ UNCHANGED <<pc, req, resolved, out, again, drivers>>

\* calculate_features(app_data); resolved is its app_date
Calculate(app_data) ==
  /\ pc = "idle"
  /\ req' = app_data
  /\ resolved' = _parse_application_date(app_data.application_date, ClockAt(now))
  /\ out' = calculate_features(app_data, ClockAt(now))
  /\ pc' = "called"
  /\ UNCHANGED <<now, again, drivers>>

\* calculate_features called once more on the same ApplicationData
CalculateAgain ==
  /\ pc = "called"
  /\ again' = calculate_features(req, ClockAt(now))
  /\ pc' = "called twice"
  /\ UNCHANGED <<now, req, resolved, out, drivers>>

\* the request is answered and dropped: nothing is kept between requests
Respond ==
  /\ pc \in {"called", "called twice"}
  /\ pc' = "idle"
  /\ req' = NoRequest
  /\ resolved' = PyNone
  /\ out' = NoResult
  /\ again' = NoResult
  /\ UNCHANGED <<now, drivers>>

\* a request arrives while none is being handled
Receive ==
  /\ pc = "idle"
  /\ \E app_data \in Requests : Calculate(app_data)

Next ==
  \/ Tick
  \/ Receive
  \/ CalculateAgain
  \/ Respond

Spec == Init /\ [][Next]_vars

(***************************************************************************)
(* Properties.  A call has been made when pc is not "idle"; out is then    *)
(* its FeatureResponse, or the Failure that left it.                       *)
(***************************************************************************)
Called == pc # "idle"

Answered == Called /\ out.raised = ""

\* the sentinel triple, with the id of the request
Sentinels == FeatureResponse(req.id, -3, -1, -1)

\* what _parse_contracts makes of the contracts field of the request
Parsed == _parse_contracts(req.contracts)

\* C1: calculate_features never raises: every call, whatever the
\* application_date and the contracts text are, ends with a FeatureResponse.
C1_NeverRaises == Called => out.raised = ""

\* C2: when contracts is null, the empty string or the text "[]", the call
\* returns tot_claim_cnt_l180d = -3, disb_bank_loan_wo_tbc = -1 and
\* day_sinlastloan = -1 with the id of the request, whatever the
\* application_date is.
C2_EmptyContractsLaw ==
  (Called /\ req.contracts \in {PyNone, PyStr(<<>>), PyStr(<<Tok("["), Tok("]")>>)})
    => out = Sentinels

\* a call on the text "[]" with an application_date that does not parse
C2_Witness ==
  /\ Called
  /\ req.contracts = PyStr(<<Tok("["), Tok("]")>>)
  /\ ~fromisoformat(req.application_date.s).ok
  /\ req.id = 5678
  /\ out = Sentinels

\* an entry that qualifies for day_sinlastloan: a mapping with a truthy
\* summa and a contract_date that is a date
QualifiesAsLoan(e) ==
  /\ e.ty = "dict"
  /\ Truthy(DictGet(e, K_summa, PyNone))
  /\ Truthy(parse_date(DictGet(e, K_contract_date, PyNone)))

HasLoan(contracts) ==
  /\ contracts.ty = "list"
  /\ \E i \in 1..Len(contracts.l) : QualifiesAsLoan(contracts.l[i])

\* C3: day_sinlastloan is a day count >= 0 or exactly -1, and it is -1 only
\* when no contract qualifies, also when a contract_date lies after the
\* application date.
C3_DaySinceLastLoanRange ==
  Answered =>
    /\ out.day_sinlastloan >= -1
    /\ out.day_sinlastloan = -1 => ~HasLoan(Parsed)

\* the days of the parseable claim_dates of the mapping entries of a list
ClaimDays(l) ==
  LET dated == SelectSeq(l, LAMBDA e :
                 e.ty = "dict"
                 /\ Truthy(parse_date(DictGet(e, K_claim_date, PyStr(<<>>)))))
  IN [i \in 1..Len(dated) |-> parse_date(dated[i].d[K_claim_date]).ord]

\* C4: whatever the time of day of the resolved application date, a claim
\* dated 180 days before the application day is counted, one dated on the
\* application day is counted, and one dated 181 days before is not: a list
\* whose claims all fall on these three days has as many counted claims as
\* it has claims on the first two (-3 standing for none).
C4_WindowInclusivity ==
  (Answered /\ Parsed.ty = "list") =>
    LET days == ClaimDays(Parsed.l)
        on == resolved.ord
        counted == {i \in 1..Len(days) : days[i] \in {on - 180, on}}
    IN (\A i \in 1..Len(days) : days[i] \in {on - 181, on - 180, on})
         => out.tot_claim_cnt_l180d
              = IF counted = {} THEN -3 ELSE Cardinality(counted)

\* C5: a contracts text that decodes to a JSON value that is no array (an
\* object, a number, a boolean, a string) is treated as empty: the parser
\* yields the empty list and the call returns the sentinel triple.
C5_NonListIsEmpty ==
  (Called /\ req.contracts.ty = "str" /\ json_loads(req.contracts.s).ok
          /\ json_loads(req.contracts.s).val.ty # "list")
    => (Parsed = PyList(<<>>) /\ out = Sentinels)

\* the text is JSON: it decodes, and without the name NaN, which is none
IsJSON(toks) ==
  /\ json_loads(toks).ok
  /\ \A i \in 1..Len(toks) : toks[i].t # "NaN"

\* C6: for a contracts text that is not syntactically valid JSON,
\* _parse_contracts returns the empty list and the call returns the
\* sentinel triple with the id of the request.
C6_InvalidJsonLaw ==
  (Called /\ req.contracts.ty = "str" /\ ~IsJSON(req.contracts.s))
    => (Parsed = PyList(<<>>) /\ out = Sentinels)

\* C7 as stated: two calls on the same ApplicationData, made at any two
\* moments, end alike, also when the application_date does not parse.
C7_Determinism == pc = "called twice" => again = out

\* C7 amended: two calls on the same ApplicationData end alike when its
\* application_date parses or its contracts yield an empty list (with an
\* unparseable date the features follow the wall clock of each call).
C7_DeterminismOfParsedDates ==
  (pc = "called twice"
   /\ (fromisoformat(Replace(req.application_date.s, "Z",
                             <<"+", "0", "0", ":", "0", "0">>)).ok
       \/ ~Truthy(Parsed)))
    => again = out

\* a second call, after the clock has moved, on a request whose date parses
\* and whose contracts give all three features
C7_Witness ==
  /\ pc = "called twice"
  /\ now > 0
  /\ fromisoformat(req.application_date.s).ok
  /\ again = out
  /\ out.raised = ""
  /\ out.tot_claim_cnt_l180d > 0
  /\ out.disb_bank_loan_wo_tbc > 0
  /\ out.day_sinlastloan >= 0

\* C8: tot_claim_cnt_l180d of a FeatureResponse is a count >= 1 or exactly
\* -3, never 0 and never another negative number.
C8_ClaimCountRange ==
  Answered => (out.tot_claim_cnt_l180d >= 1 \/ out.tot_claim_cnt_l180d = -3)

\* the reduction ran over a list that holds a dated claim, none in the window
C8_Witness ==
  /\ Answered
  /\ Parsed.ty = "list"
  /\ Len(ClaimDays(Parsed.l)) > 0
  /\ out.tot_claim_cnt_l180d = -3

\* C9: disb_bank_loan_wo_tbc of a FeatureResponse is a sum > 0 or exactly -1,
\* never 0 and never another negative value, also with negative or zero
\* loan_summa values.
C9_LoanSumRange ==
  Answered => (out.disb_bank_loan_wo_tbc > 0 \/ out.disb_bank_loan_wo_tbc = -1)

\* the loop summed loan_summa values to less than -1
C9_Witness ==
  /\ Answered
  /\ Parsed.ty = "list"
  /\ SumLoans(Parsed.l, [exc |-> "", v |-> 0, nan |-> FALSE]).v < -1
  /\ out.disb_bank_loan_wo_tbc = -1

\* the banks C10 names
NamedBanks ==
  {Bank("L", "I", "Z"), Bank("L", "O", "M"), Bank("M", "K", "O"),
   Bank("S", "U", "G")}

\* a contract whose bank is one of the four codes, null or absent
OfExcludedBank(e) ==
  /\ e.ty = "dict"
  /\ (K_bank \notin DOMAIN e.d \/ e.d[K_bank] = PyNone \/ e.d[K_bank] \in NamedBanks)

\* the sum of a parsed list is the sum of the list without the contracts of
\* an excluded bank, and -1 when every contract is of an excluded bank
SumLeavesOutExcluded(contracts, result) ==
  (contracts.ty = "list" /\ Truthy(contracts)) =>
    LET others == SelectSeq(contracts.l, LAMBDA e : ~OfExcludedBank(e))
        sum == _calculate_disbursed_loans(PyList(others))
    IN IF result.raised = ""
       THEN /\ sum = Returned(result.disb_bank_loan_wo_tbc)
            /\ (\A i \in 1..Len(contracts.l) : contracts.l[i].ty = "dict"
                                               /\ OfExcludedBank(contracts.l[i]))
                 => result.disb_bank_loan_wo_tbc = -1
       ELSE sum = Raised(result.raised)

\* C10: contracts of an excluded bank contribute nothing to the loan sum:
\* the sum of a list is the sum of the list without them, and -1 when every
\* contract is of an excluded bank.
C10_ExclusionSet == Called => SumLeavesOutExcluded(Parsed, out)

\* a list with a contract of a named bank that has a contract_date and a
\* positive loan_summa, beside a contract that is summed
C10_Witness ==
  /\ Answered
  /\ Parsed.ty = "list"
  /\ \E i \in 1..Len(Parsed.l) :
       LET e == Parsed.l[i] IN
         /\ e.ty = "dict"
         /\ DictGet(e, K_bank, PyNone) \in NamedBanks
         /\ Truthy(DictGet(e, K_contract_date, PyNone))
         /\ DictGet(e, K_loan_summa, PyNone) = PyInt(3000)
  /\ out.disb_bank_loan_wo_tbc = 5000

(***************************************************************************)
(* Calls on mixed contract lists: valid contracts beside entries that are  *)
(* no mappings, contracts with falsy, textual or unusable fields, and      *)
(* application dates with and without a time of day.  The clock advances   *)
(* between calls only, so after a call now is the clock the call has read. *)
(***************************************************************************)
MixedEntries ==
  { PyNone,
    PyStr(<<"x">>),
    PyInt(5),
    PyList(<<PyInt(1)>>),
    PyDict(<<>>),
    Contract(D_on, D_on, Bank("0", "0", "1"), PyInt(5000), PyInt(5000)),
    Contract(D_180, D_181, Bank("L", "I", "Z"), PyInt(3000), PyInt(3000)),
    Contract(D_after, D_after, Bank("0", "0", "2"), PyStr(<<"7", "0", "0">>),
             PyStr(<<"x">>)),
    Contract(D_bad, D_bad, Bank("0", "0", "1"), PyInt(40), PyInt(40)),
    Contract(D_on, D_180, Bank("0", "0", "1"), PyStr(<<"x">>), PyInt(5)),
    Contract(D_181, Absent, Bank("0", "0", "1"), PyInt(100), PyInt(100)),
    Contract(Absent, D_181, Bank("0", "0", "1"), PyInt(0), PyStr(<<>>)),
    Contract(Absent, D_181, Bank("0", "0", "1"), PyStr(<<>>), PyNone),
    Contract(Absent, D_181, Bank("0", "0", "1"), PyNone, PyInt(0)),
    Contract(Absent, D_on, PyList(<<Bank("0", "0", "1")>>), PyInt(5), Absent) }

RECURSIVE MixedListsUpTo(_)
\* the lists of at most n mixed entries
MixedListsUpTo(n) ==
  IF n = 0 THEN {<<>>}
  ELSE LET shorter == MixedListsUpTo(n - 1) IN
    shorter \cup {Append(l, e) : l \in {k \in shorter : Len(k) = n - 1},
                                 e \in MixedEntries}

\* midnight, noon, and a text that is no date
MixedDates ==
  { PyStr(IsoDateTime(2024, 6, 29, 0)),
    PyStr(IsoDateTime(2024, 6, 29, 12)),
    PyStr(<<"i", "n", "v", "a", "l", "i", "d">>) }

MixedRequests ==
  {ApplicationData(1234, d, PyStr(json_dumps(PyList(l)))) :
     d \in MixedDates, l \in MixedListsUpTo(MaxContracts)}

\* what _parse_application_date is called on directly: None, a number, the
\* empty string, a date in another format, and a date
DateArguments ==
  { PyNone,
    PyInt(20240629),
    PyStr(<<>>),
    D_on,
    PyStr(IsoDate(2024, 6, 29)) }

\* datetime.now() moves on between two calls
TickIdle ==
  /\ pc = "idle"
  /\ Tick

ReceiveMixed ==
  /\ pc = "idle"
  /\ \E app_data \in MixedRequests : Calculate(app_data)

\* _parse_application_date(date_str) called on its own
ParseApplicationDate ==
  /\ pc = "idle"
  /\ \E date_str \in DateArguments :
       /\ req' = ApplicationData(0, date_str, PyNone)
       /\ resolved' = _parse_application_date(date_str, ClockAt(now))
  /\ pc' = "parsed"
  /\ UNCHANGED <<now, out, again, drivers>>

\* the datetime of the direct call is dropped
Forget ==
  /\ pc = "parsed"
  /\ pc' = "idle"
  /\ req' = NoRequest
  /\ resolved' = PyNone
  /\ UNCHANGED <<now, out, again, drivers>>

MixedNext ==
  \/ TickIdle
  \/ ReceiveMixed
  \/ Respond
  \/ ParseApplicationDate
  \/ Forget

MixedSpec == Init /\ [][MixedNext]_vars

(***************************************************************************)
(* Properties of the three reductions, stated over the decoded list and    *)
(* the resolved application date of a call that returned.                  *)
(***************************************************************************)
\* a call of calculate_features returned a FeatureResponse for a non-empty
\* contract list
ReducedList ==
  /\ pc = "called"
  /\ out.raised = ""
  /\ Parsed.ty = "list"
  /\ Parsed.l # <<>>

\* a value that converts to a number: a number, or a text of decimal
\* digits after an optional sign
IsNumeric(x) ==
  \/ x.ty \in {"int", "float", "bool"}
  \/ /\ x.ty = "str"
     /\ LET digits == IF x.s # <<>> /\ x.s[1] \in {"+", "-"} THEN Tail(x.s) ELSE x.s
        IN digits # <<>> /\ AllDigits(digits)

\* the number a numeric value stands for (the lists hold no NaN)
NumberOf(x) ==
  CASE x.ty = "int" -> x.i
    [] x.ty = "float" -> x.f
    [] x.ty = "bool" -> IF x.b THEN 1 ELSE 0
    [] x.ty = "str" ->
         IF x.s[1] = "-" THEN 0 - DecVal(Tail(x.s))
         ELSE IF x.s[1] = "+" THEN DecVal(Tail(x.s))
         ELSE DecVal(x.s)

\* an entry C11 lets into the sum: a mapping with a truthy contract_date, a
\* bank outside the excluded set and a truthy loan_summa that converts
QualifiesForSum(e) ==
  /\ e.ty = "dict"
  /\ Truthy(DictGet(e, K_contract_date, PyNone))
  /\ ~OfExcludedBank(e)
  /\ Truthy(DictGet(e, K_loan_summa, PyNone))
  /\ IsNumeric(e.d[K_loan_summa])

RECURSIVE SumOfQualifying(_)
SumOfQualifying(l) ==
  IF l = <<>> THEN 0
  ELSE (IF QualifiesForSum(Head(l)) THEN NumberOf(Head(l).d[K_loan_summa]) ELSE 0)
       + SumOfQualifying(Tail(l))

\* C11: for a non-empty contract list, disb_bank_loan_wo_tbc of the response
\* is the sum of loan_summa over exactly the mappings with a truthy
\* contract_date (a date or not), a bank outside the excluded set and a
\* truthy loan_summa that converts to a number, when that sum is > 0, and -1
\* otherwise.
C11_LoanSum ==
  ReducedList =>
    LET sum == SumOfQualifying(Parsed.l) IN
      out.disb_bank_loan_wo_tbc = IF sum > 0 THEN sum ELSE -1

\* a numeric string and an amount under a contract_date that is no date are
\* summed
C11_Witness ==
  /\ ReducedList
  /\ \E i \in 1..Len(Parsed.l) :
       /\ QualifiesForSum(Parsed.l[i])
       /\ Parsed.l[i].d[K_loan_summa].ty = "str"
  /\ \E i \in 1..Len(Parsed.l) :
       /\ QualifiesForSum(Parsed.l[i])
       /\ ~Truthy(parse_date(Parsed.l[i].d[K_contract_date]))
  /\ out.disb_bank_loan_wo_tbc = 740

\* the days of the contract_dates of the entries C12 lets in: mappings with a
\* truthy summa and a truthy contract_date that is a date
LoanDays(l) ==
  {parse_date(l[i].d[K_contract_date]).ord :
     i \in {j \in 1..Len(l) : QualifiesAsLoan(l[j])}}

Latest(days) == CHOOSE d \in days : \A e \in days : e <= d

\* C12: for a non-empty contract list, day_sinlastloan of the response is the
\* number of days from D to the application date, D the latest contract_date
\* that is a date among the mappings with a truthy contract_date and a
\* truthy summa (numeric or not); it is 0 when D is the application day and
\* -1 when no entry qualifies; claim_date plays no role.
C12_DaysSinceLastLoan ==
  ReducedList =>
    LET days == LoanDays(Parsed.l) IN
      out.day_sinlastloan
        = IF days = {} THEN -1 ELSE resolved.ord - Latest(days)

\* two loans of different dates, the later one on the application day
C12_Witness ==
  /\ ReducedList
  /\ Cardinality(LoanDays(Parsed.l)) = 2
  /\ resolved.ord \in LoanDays(Parsed.l)
  /\ out.day_sinlastloan = 0

\* the entries C13 counts: mappings whose claim_date is a date d with
\* application_date - 180 days <= d <= application_date, as datetimes
CountedClaims(l, app_date) ==
  {i \in 1..Len(l) :
     /\ l[i].ty = "dict"
     /\ LET claim_date == parse_date(DictGet(l[i], K_claim_date, PyNone)) IN
          /\ claim_date # PyNone
          /\ claim_date.ord <= app_date.ord
          /\ \/ claim_date.ord > app_date.ord - 180
             \/ claim_date.ord = app_date.ord - 180 /\ app_date.sec = 0}

\* C13: for a non-empty contract list, tot_claim_cnt_l180d of the response is
\* the number of mappings whose claim_date is a DD.MM.YYYY date between the
\* application date minus 180 days and the application date, each entry
\* counted for itself, and -3 when there is none.
C13_RecentClaims ==
  ReducedList =>
    LET n == Cardinality(CountedClaims(Parsed.l, resolved)) IN
      out.tot_claim_cnt_l180d = IF n = 0 THEN -3 ELSE n

\* two claims of the same day are both counted
C13_Witness ==
  /\ ReducedList
  /\ Len(Parsed.l) = 2
  /\ Parsed.l[1] = Parsed.l[2]
  /\ out.tot_claim_cnt_l180d = 2

\* a bad entry of C14: null, a string, an array, a number, or {}
IsBadEntry(e) == e.ty # "dict" \/ DOMAIN e.d = {}

\* a contract whose loan_summa is there and does not convert to a number
HasNonNumericLoan(e) ==
  /\ e.ty = "dict"
  /\ K_loan_summa \in DOMAIN e.d
  /\ Truthy(e.d[K_loan_summa])
  /\ ~IsNumeric(e.d[K_loan_summa])

\* the lists of C14: bad entries beside contracts whose bank is a code, null
\* or absent
IsMixedList(l) ==
  \A i \in 1..Len(l) :
    IsBadEntry(l[i]) \/ DictGet(l[i], K_bank, PyNone).ty \in {"str", "none"}

\* C14: on a non-empty list of contracts mixed with null, {}, strings,
\* arrays, numbers and contracts with a non-numeric loan_summa,
\* calculate_features does not raise, and each feature is that of the list
\* without the bad entries: without the non-mappings and {} for all three,
\* and also without the contracts of non-numeric loan_summa for the sum.
C14_MalformedContentTolerance ==
  (pc = "called" /\ Parsed.ty = "list" /\ Parsed.l # <<>> /\ IsMixedList(Parsed.l)) =>
    LET good == SelectSeq(Parsed.l, LAMBDA e : ~IsBadEntry(e))
        summed == SelectSeq(good, LAMBDA e : ~HasNonNumericLoan(e))
    IN out = FeatureResponse(req.id,
                             _calculate_recent_claims(PyList(good), resolved).v,
                             _calculate_disbursed_loans(PyList(summed)).v,
                             _calculate_days_since_last_loan(PyList(good), resolved).v)

\* a valid contract beside a bad entry gives the features of the contract
C14_Witness ==
  /\ pc = "called"
  /\ Parsed.ty = "list"
  /\ Len(Parsed.l) = 2
  /\ IsBadEntry(Parsed.l[1])
  /\ Parsed.l[1].ty = "list"
  /\ ~IsBadEntry(Parsed.l[2])
  /\ out.raised = ""
  /\ out.tot_claim_cnt_l180d = 1
  /\ out.disb_bank_loan_wo_tbc = 5000
  /\ out.day_sinlastloan = 0

\* a contract of non-numeric loan_summa beside a valid one: it is counted
\* and dated, and left out of the sum
C14_WitnessNonNumeric ==
  /\ pc = "called"
  /\ Parsed.ty = "list"
  /\ \E i \in 1..Len(Parsed.l) : HasNonNumericLoan(Parsed.l[i])
  /\ out.raised = ""
  /\ out.tot_claim_cnt_l180d = 2
  /\ out.disb_bank_loan_wo_tbc = 5000

\* the application_date does not parse as ISO-8601
Unparseable(date_str) ==
  \/ date_str.ty # "str"
  \/ ~fromisoformat(Replace(date_str.s, "Z", <<"+", "0", "0", ":", "0", "0">>)).ok

\* the clock as an ISO-8601 text, datetime.isoformat() of ClockAt(tick)
ClockText(tick) ==
  IsoDateTime(2024, 6, 29 + (tick \div 2), (tick % 2) * 12)

\* C19: when application_date does not parse as ISO-8601 (another format, no
\* date at all, None), _parse_application_date returns the wall clock
\* instead of raising, and calculate_features ends as it ends for the same
\* request with the wall clock written as its application_date: the three
\* features are computed against that timestamp.
C19_ApplicationDateFallback ==
  /\ (pc = "parsed" /\ Unparseable(req.application_date))
       => resolved = ClockAt(now)
  /\ (pc = "called" /\ Unparseable(req.application_date)) =>
       /\ resolved = ClockAt(now)
       /\ out = calculate_features(
                  ApplicationData(req.id, PyStr(ClockText(now)), req.contracts),
                  ClockAt(0))

\* after the clock has moved, a call with a date that does not parse returns
\* features of the contracts and no sentinel
C19_Witness ==
  /\ pc = "called"
  /\ now > 0
  /\ Unparseable(req.application_date)
  /\ resolved = ClockAt(now)
  /\ out.raised = ""
  /\ out.tot_claim_cnt_l180d > 0
  /\ out.disb_bank_loan_wo_tbc > 0
  /\ out.day_sinlastloan >= 0

\* _parse_application_date(None) has returned the clock
C19_WitnessNone ==
  /\ pc = "parsed"
  /\ now > 0
  /\ req.application_date = PyNone
  /\ resolved = ClockAt(now)

(***************************************************************************)
(* app/main.py: the two endpoints.  A body is validated against            *)
(* ApplicationData before the handler runs; the handler calls              *)
(* calculate_features and turns what it raises into an HTTPException.  The *)
(* tests replace calculate_features or logger.info by a mock that raises.  *)
(***************************************************************************)
\* longest list posted to /batch-calculate-features
MaxBatch == 2

\* the response of status_code 200 with its body
Ok(body) == [status |-> 200, body |-> body]

\* raise HTTPException(status_code=...), and the 422 of a body that is no
\* ApplicationData
HTTPException(status_code) == [status |-> status_code]

\* the body has the shape of ApplicationData: application_date is there and
\* is a string, contracts is a string or null (the ids of the model are all
\* numbers)
ValidShape(body) ==
  /\ body.application_date.ty = "str"
  /\ body.contracts.ty \in {"str", "none"}

\* the patches of the tests: none, calculate_features raising ValueError or
\* Exception, logger.info raising Exception
Mocks == {"none", "ValueError", "Exception", "logger"}

\* calculate_features as the handler finds it in app.main
side_effect(patch, app_data, clock) ==
  IF patch \in {"ValueError", "Exception"} THEN Failure(patch)
  ELSE calculate_features(app_data, clock)

\* the except clauses of both handlers: ValueError first, then Exception
Handled(raised) ==
  IF raised = "ValueError" THEN HTTPException(400) ELSE HTTPException(500)

\* the end of a handler's try: return result, or the except clause
Outcome(result) ==
  IF result.raised = "" THEN Ok(result) ELSE Handled(result.raised)

\* calculate_features_endpoint: the response
calculate_features_endpoint(app_data, clock, patch) ==
  IF patch = "logger" THEN Handled("Exception")
  ELSE Outcome(side_effect(patch, app_data, clock))

\* the bodies posted: a request with a contract, one without contracts, one
\* whose contracts text is a number, one whose date does not parse, one
\* whose contracts text is no JSON, and one without application_date
ApiBodies ==
  { ApplicationData(1234, PyStr(IsoDateTime(2024, 6, 29, 0)),
      PyStr(json_dumps(PyList(<<Contract(D_on, D_on, Bank("0", "0", "1"),
                                         PyInt(5000), PyInt(5000))>>)))),
    ApplicationData(5678, PyStr(IsoDateTime(2024, 6, 29, 12)), PyNone),
    ApplicationData(1234, PyStr(IsoDateTime(2024, 6, 29, 0)), PyStr(<<TokNum(5)>>)),
    ApplicationData(5678, PyStr(<<"i", "n", "v", "a", "l", "i", "d">>),
      PyStr(json_dumps(PyList(<<Contract(D_on, D_on, Bank("0", "0", "1"),
                                         PyInt(5000), PyInt(5000))>>)))),
    ApplicationData(1234, PyStr(IsoDateTime(2024, 6, 29, 0)),
      PyStr(<<Tok("junk"), Tok("junk")>>)),
    ApplicationData(1234, Absent, PyNone) }

RECURSIVE BatchesUpTo(_)
\* the lists of at most n bodies
BatchesUpTo(n) ==
  IF n = 0 THEN {<<>>}
  ELSE LET shorter == BatchesUpTo(n - 1) IN
    shorter \cup {Append(l, b) : l \in {k \in shorter : Len(k) = n - 1},
                                 b \in ApiBodies}

\* POST /calculate-features; out is what calculate_features ended with
Post ==
  /\ pc = "idle"
  /\ \E body \in ApiBodies, patch \in Mocks :
       /\ req' = body
       /\ mock' = patch
       /\ out' = IF ValidShape(body) /\ patch # "logger"
                 THEN side_effect(patch, body, ClockAt(now))
                 ELSE NoResult
       /\ reply' = IF ValidShape(body)
                   THEN calculate_features_endpoint(body, ClockAt(now), patch)
                   ELSE HTTPException(422)
  /\ pc' = "replied"
  /\ UNCHANGED <<now, resolved, again, batch, results>>

\* POST /batch-calculate-features, up to the loop: the list is validated,
\* logger.info is called, results = []
PostBatch ==
  /\ pc = "idle"
  /\ \E app_data_list \in BatchesUpTo(MaxBatch), patch \in Mocks :
       /\ batch' = app_data_list
       /\ mock' = patch
       /\ IF \E i \in 1..Len(app_data_list) : ~ValidShape(app_data_list[i])
          THEN /\ reply' = HTTPException(422)
               /\ pc' = "batch replied"
          ELSE IF patch = "logger"
          THEN /\ reply' = Handled("Exception")
               /\ pc' = "batch replied"
          ELSE /\ reply' = NoReply
               /\ pc' = "in batch"
  /\ results' = <<>>
  /\ UNCHANGED <<now, req, resolved, out, again>>

\* one turn of the loop with the result put in front of the earlier ones
BatchItem_prepending ==
  /\ pc = "in batch"
  /\ Len(results) < Len(batch)
  /\ LET app_data == batch[Len(results) + 1]
         result == side_effect(mock, app_data, ClockAt(now))
     IN IF result.raised = ""
        THEN /\ results' = <<result>> \o results
             /\ UNCHANGED <<pc, reply>>
        ELSE /\ reply' = Handled(result.raised)
             /\ pc' = "batch replied"
             /\ UNCHANGED results
  /\ UNCHANGED <<now, req, resolved, out, again, batch, mock>>

\* one turn of the loop: the result is appended, or the exception of
\* calculate_features leaves the handler as an HTTPException
BatchItem ==
  /\ pc = "in batch"
  /\ Len(results) < Len(batch)
  /\ LET app_data == batch[Len(results) + 1]
         result == side_effect(mock, app_data, ClockAt(now))
     IN IF result.raised = ""
        THEN /\ results' = Append(results, result)
             /\ UNCHANGED <<pc, reply>>
        ELSE /\ reply' = Handled(result.raised)
             /\ pc' = "batch replied"
             /\ UNCHANGED results
  /\ UNCHANGED <<now, req, resolved, out, again, batch, mock>>

\* return results
BatchReturn ==
  /\ pc = "in batch"
  /\ Len(results) = Len(batch)
  /\ reply' = Ok(results)
  /\ pc' = "batch replied"
  /\ UNCHANGED <<now, req, resolved, out, again, batch, results, mock>>

\* the response is sent; the handler keeps nothing
Close ==
  /\ pc \in {"replied", "batch replied"}
  /\ pc' = "idle"
  /\ req' = NoRequest
  /\ out' = NoResult
  /\ batch' = <<>>
  /\ results' = <<>>
  /\ reply' = NoReply
  /\ mock' = "none"
  /\ UNCHANGED <<now, resolved, again>>

ApiNext ==
  \/ Tick
  \/ Post
  \/ PostBatch
  \/ BatchItem
  \/ BatchReturn
  \/ Close

ApiSpec == Init /\ [][ApiNext]_vars

(***************************************************************************)
(* scripts/process_csv.py: the rows of the input frame are processed one   *)
(* after the other, each into one output record.  A cell is a string, a    *)
(* number, or NaN where the file has nothing.                              *)
(***************************************************************************)
\* pd.isna(cell)
isna(cell) == cell.ty = "none" \/ (cell.ty = "float" /\ cell.nan)

\* str(cell) as a contracts text: a string as it is, a number as its literal
str(cell) ==
  CASE cell.ty = "str" -> cell
    [] cell.ty = "int" -> PyStr(<<TokNum(cell.i)>>)
    [] cell.ty = "float" -> PyStr(<<IF cell.nan THEN Tok("NaN") ELSE TokNum(cell.f)>>)

\* ApplicationData(...) accepts the application_date: a string always; a
\* NaN cell only where the installed pydantic casts numbers to str (lax),
\* and is a ValidationError elsewhere
AcceptsDate(application_date, lax) == application_date.ty = "str" \/ lax

\* the application_date field after validation
DateField(application_date) ==
  IF application_date.ty = "str" THEN application_date
  ELSE PyStr(<<"n", "a", "n">>)

Row(id, application_date, contracts) ==
  [id |-> id, application_date |-> application_date, contracts |-> contracts]

\* the dict process_row returns
OutputRecord(id, claims, loans, days) ==
  [id |-> id, tot_claim_cnt_l180d |-> claims, disb_bank_loan_wo_tbc |-> loans,
   day_sinlastloan |-> days]

\* the dict of the features of a FeatureResponse
RecordOf(features) ==
  OutputRecord(features.id, features.tot_claim_cnt_l180d,
               features.disb_bank_loan_wo_tbc, features.day_sinlastloan)

\* the body of the try of process_row after calculate_features: its
\* features as a dict, or, from the except clause, the sentinel triple
RecordOrSentinels(features, id) ==
  IF features.raised = "" THEN RecordOf(features)
  ELSE OutputRecord(id, -3, -1, -1)

\* the same without the except clause
RecordOrFailure(features) ==
  IF features.raised = "" THEN RecordOf(features) ELSE features

\* a slip: the except clause logs and raises again, no record is returned
process_row_raising_again(row, clock, lax) ==
  IF ~AcceptsDate(row.application_date, lax) THEN Failure("ValidationError")
  ELSE LET contracts == IF isna(row.contracts) THEN PyNone ELSE str(row.contracts)
           app_data == ApplicationData(row.id, DateField(row.application_date),
                                       contracts)
       IN RecordOrFailure(calculate_features(app_data, clock))

\* process_row when the clock shows clock
process_row(row, clock, lax) ==
  IF ~AcceptsDate(row.application_date, lax) THEN OutputRecord(row.id, -3, -1, -1)
  ELSE LET contracts == IF isna(row.contracts) THEN PyNone ELSE str(row.contracts)
           app_data == ApplicationData(row.id, DateField(row.application_date),
                                       contracts)
       IN RecordOrSentinels(calculate_features(app_data, clock), row.id)

\* the rows of the input: a row with a contract, one with an empty contracts
\* cell, one whose contracts cell is a number, one with an empty
\* application_date cell, one whose application_date is no date
CsvRows ==
  { Row(1234, PyStr(IsoDateTime(2024, 6, 29, 0)),
        PyStr(json_dumps(PyList(<<Contract(D_on, D_on, Bank("0", "0", "1"),
                                           PyInt(5000), PyInt(5000))>>)))),
    Row(5678, PyStr(IsoDateTime(2024, 6, 29, 12)), PyNaN),
    Row(1234, PyStr(IsoDateTime(2024, 6, 29, 0)), PyInt(5)),
    Row(5678, PyNaN,
        PyStr(json_dumps(PyList(<<Contract(D_on, D_on, Bank("0", "0", "1"),
                                           PyInt(5000), PyInt(5000))>>)))),
    Row(1234, PyStr(<<"i", "n", "v", "a", "l", "i", "d">>),
        PyStr(json_dumps(PyList(<<Contract(D_on, D_180, Bank("0", "0", "1"),
                                           PyInt(700), PyInt(700))>>)))) }

RECURSIVE FramesUpTo(_)
\* the frames of at most n rows
FramesUpTo(n) ==
  IF n = 0 THEN {<<>>}
  ELSE LET shorter == FramesUpTo(n - 1) IN
    shorter \cup {Append(l, r) : l \in {k \in shorter : Len(k) = n - 1},
                                 r \in CsvRows}

\* df = pd.read_csv(input_file); results = []
ReadCsv ==
  /\ pc = "idle"
  /\ \E df \in FramesUpTo(MaxBatch) : batch' = df
  /\ results' = <<>>
  /\ pc' = "rows"
  /\ UNCHANGED <<now, req, resolved, out, again, reply, mock>>

\* results.append(process_row(row)) for the next row of df.iterrows()
ProcessRow ==
  /\ pc = "rows"
  /\ Len(results) < Len(batch)
  /\ \E lax \in BOOLEAN :
       results' = Append(results,
                         process_row(batch[Len(results) + 1], ClockAt(now), lax))
  /\ UNCHANGED <<now, pc, req, resolved, out, again, batch, reply, mock>>

\* pd.DataFrame(results).to_csv(output_file); return True
WriteCsv ==
  /\ pc = "rows"
  /\ Len(results) = Len(batch)
  /\ reply' = [written |-> results, returned |-> TRUE]
  /\ pc' = "written"
  /\ UNCHANGED <<now, req, resolved, out, again, batch, results, mock>>

\* the script ends
Exit ==
  /\ pc = "written"
  /\ pc' = "idle"
  /\ batch' = <<>>
  /\ results' = <<>>
  /\ reply' = NoReply
  /\ UNCHANGED <<now, req, resolved, out, again, mock>>

CsvNext ==
  \/ Tick
  \/ ReadCsv
  \/ ProcessRow
  \/ WriteCsv
  \/ Exit

CsvSpec == Init /\ [][CsvNext]_vars

(***************************************************************************)
(* Properties of the endpoints.                                            *)
(***************************************************************************)
\* every body of the batch has the shape of ApplicationData
BatchOfValidShape == \A i \in 1..Len(batch) : ValidShape(batch[i])

\* the sentinel triple with the id of an ApplicationData
SentinelsFor(app_data) == FeatureResponse(app_data.id, -3, -1, -1)

\* C15: when calculate_features raises (a ValueError or another Exception)
\* while /calculate-features handles a request, the endpoint answers with a
\* FeatureResponse of the request's id and the sentinel triple (-3, -1, -1),
\* and with no error.
C15_SingleEndpointFallback ==
  (pc = "replied" /\ out.raised \notin {"", "not called"})
    => reply = Ok(SentinelsFor(req))

\* C16: when calculate_features raises for an application of a batch, or an
\* exception occurs in the outer handling, /batch-calculate-features still
\* returns one result per application, in order, the failed ones with the
\* sentinel triple and their id.
C16_BatchEndpointFallback ==
  (pc = "batch replied" /\ BatchOfValidShape) =>
    /\ reply.status = 200
    /\ Len(reply.body) = Len(batch)
    /\ \A i \in 1..Len(batch) :
         /\ reply.body[i].raised = ""
         /\ reply.body[i].id = batch[i].id
         /\ (mock = "logger" \/ side_effect(mock, batch[i], ClockAt(now)).raised # "")
              => reply.body[i] = SentinelsFor(batch[i])

\* C17: /calculate-features answers with an error only when the body has not
\* the shape of ApplicationData, and then with 422 before the core runs; a
\* body of valid shape is answered 200 with a FeatureResponse, whatever its
\* contracts text holds.
C17_ErrorOnlyForInvalidShape ==
  (pc = "replied" /\ mock = "none") =>
    IF ValidShape(req)
    THEN reply.status = 200 /\ reply.body.raised = ""
    ELSE reply.status = 422 /\ out = NoResult

(***************************************************************************)
(* Properties of the batches.                                              *)
(***************************************************************************)
IsOutputRecord(rec) ==
  DOMAIN rec = {"id", "tot_claim_cnt_l180d", "disb_bank_loan_wo_tbc",
                "day_sinlastloan"}

\* processing the row raises, whichever pydantic validates it: the
\* application_date cell is no string and is not cast, or calculate_features
\* raises
RowRaises(row, lax) ==
  \/ ~AcceptsDate(row.application_date, lax)
  \/ calculate_features(
       ApplicationData(row.id, DateField(row.application_date),
                       IF isna(row.contracts) THEN PyNone ELSE str(row.contracts)),
       ClockAt(now)).raised # ""

\* C18: process_csv_file writes exactly one record per input row, in the
\* order of the rows, each the record process_row makes of its row; a row
\* whose processing raises gets its id with the sentinel triple
\* (-3, -1, -1), and the rows after it are processed all the same.
C18_RowIsolation ==
  pc = "written" =>
    /\ Len(reply.written) = Len(batch)
    /\ \A i \in 1..Len(batch) :
         LET rec == reply.written[i] IN
           /\ IsOutputRecord(rec)
           /\ rec.id = batch[i].id
           /\ (\A lax \in BOOLEAN : RowRaises(batch[i], lax))
                => rec = OutputRecord(batch[i].id, -3, -1, -1)
           /\ \E tick \in 0..now, lax \in BOOLEAN :
                rec = process_row(batch[i], ClockAt(tick), lax)

\* a row whose processing raises is followed by a row that gets its
\* features
C18_Witness ==
  /\ pc = "written"
  /\ Len(batch) = 2
  /\ batch[1].contracts = PyInt(5)
  /\ reply.written[1] = OutputRecord(1234, -3, -1, -1)
  /\ reply.written[2] = OutputRecord(1234, 1, 5000, 0)

\* C20: the record a batch produces for one of its records is what
\* calculate_features returns for that record alone (at a moment of the
\* batch); it does not depend on the other records of the batch nor on
\* their order: for every application of a batch posted to
\* /batch-calculate-features on which calculate_features returns, the
\* response holds, at its place, that FeatureResponse.
C20_BatchIndependence ==
  (pc = "batch replied" /\ mock = "none" /\ BatchOfValidShape) =>
    \A i \in 1..Len(batch) :
      calculate_features(batch[i], ClockAt(now)).raised = ""
        => /\ reply.status = 200
           /\ \E tick \in 0..now :
                reply.body[i] = calculate_features(batch[i], ClockAt(tick))

\* every application of the posted batch is computed without exception: the
\* bodies have the shape of ApplicationData, nothing is patched, and
\* calculate_features returns for each of them
AllComputed ==
  /\ mock = "none"
  /\ BatchOfValidShape
  /\ \A i \in 1..Len(batch) :
       calculate_features(batch[i], ClockAt(now)).raised = ""

\* C21: when every application of a /batch-calculate-features request is
\* computed without exception, the response is a list as long as the
\* request list, and its i-th element has the id of the i-th application
\* and the features calculate_features gives for it (the sentinel triple
\* when its contracts are null or do not decode).
C21_BatchEndpointShape ==
  (pc = "batch replied" /\ AllComputed) =>
    /\ reply.status = 200
    /\ Len(reply.body) = Len(batch)
    /\ \A i \in 1..Len(batch) :
         /\ reply.body[i].id = batch[i].id
         /\ \E tick \in 0..now :
              reply.body[i] = calculate_features(batch[i], ClockAt(tick))
         /\ ~Truthy(_parse_contracts(batch[i].contracts))
              => reply.body[i] = SentinelsFor(batch[i])

\* the answer to a batch of an application with a contract, whose features
\* are 1, 5000 and 0, and one of another id whose contracts do not decode
C21_Witness ==
  /\ pc = "batch replied"
  /\ AllComputed
  /\ Len(batch) = 2
  /\ batch[1].id # batch[2].id
  /\ batch[2].contracts = PyStr(<<Tok("junk"), Tok("junk")>>)
  /\ reply.status = 200
  /\ reply.body[1] = FeatureResponse(batch[1].id, 1, 5000, 0)
  /\ reply.body[2] = SentinelsFor(batch[2])

(***************************************************************************)
(* Two calls on related requests: calculate_features is called on a        *)
(* request and then, at the same reading of the clock, on the request with *)
(* the bank of one contract changed, or with its contract list in another  *)
(* order.  out is what the first call ended with, again what the second    *)
(* ended with, req the request of the latest call.                         *)
(***************************************************************************)
\* the entries of the lists: a contract summed and counted, one of an
\* excluded bank, one that shares the latest contract_date and has a
\* numeric text as amount, one dated after the application with a negative
\* amount, one whose amount is NaN, one whose bank is an array, and null
VariantEntries ==
  { PyNone,
    Contract(D_on, D_on, Bank("0", "0", "1"), PyInt(5000), PyInt(5000)),
    Contract(D_180, D_181, Bank("L", "I", "Z"), PyInt(3000), PyInt(3000)),
    Contract(D_after, D_on, Bank("0", "0", "2"), PyStr(<<"7", "0", "0">>),
             PyStr(<<"x">>)),
    Contract(D_181, D_after, Bank("0", "0", "2"), PyInt(-5000), PyInt(1)),
    Contract(Absent, D_180, Absent, PyNaN, PyInt(1)),
    Contract(D_on, D_on, PyList(<<Bank("0", "0", "1")>>), PyInt(5), PyInt(5)) }

RECURSIVE VariantListsUpTo(_)
\* the lists of at most n of these entries
VariantListsUpTo(n) ==
  IF n = 0 THEN {<<>>}
  ELSE LET shorter == VariantListsUpTo(n - 1) IN
    shorter \cup {Append(l, e) : l \in {k \in shorter : Len(k) = n - 1},
                                 e \in VariantEntries}

VariantRequests ==
  {ApplicationData(1234, d, PyStr(json_dumps(PyList(l)))) :
     d \in MixedDates, l \in VariantListsUpTo(MaxContracts)}

\* the values a bank is changed to: null, an excluded code, another code,
\* a number and an array
BankValues ==
  { PyNone, Bank("L", "O", "M"), Bank("0", "0", "3"), PyInt(7),
    PyList(<<Bank("L", "I", "Z")>>) }

\* the contract with another bank
WithBank(contract, bank) == PyDict((K_bank :> bank) @@ contract.d)

\* the request with another contract list, written as the tests write it
WithContracts(app_data, l) ==
  ApplicationData(app_data.id, app_data.application_date,
                  PyStr(json_dumps(PyList(l))))

ReceiveVariant ==
  /\ pc = "idle"
  /\ \E app_data \in VariantRequests : Calculate(app_data)

\* the second call, on the request with the bank of its i-th entry changed
ChangeBankOf(contracts) ==
  \E i \in 1..Len(contracts), bank \in BankValues :
    /\ contracts[i].ty = "dict"
    /\ DictGet(contracts[i], K_bank, Absent) # bank
    /\ req' = WithContracts(req, [contracts EXCEPT ![i] = WithBank(@, bank)])
    /\ again' = calculate_features(req', ClockAt(now))

ChangeBank ==
  /\ pc = "called"
  /\ ChangeBankOf(json_loads(req.contracts.s).val.l)
  /\ pc' = "bank changed"
  /\ UNCHANGED <<now, resolved, out, drivers>>

\* the second call, on the request with its entries in another order
ReorderOf(contracts) ==
  \E p \in Permutations(1..Len(contracts)) :
    /\ [i \in 1..Len(contracts) |-> contracts[p[i]]] # contracts
    /\ req' = WithContracts(req, [i \in 1..Len(contracts) |-> contracts[p[i]]])
    /\ again' = calculate_features(req', ClockAt(now))

Reorder ==
  /\ pc = "called"
  /\ ReorderOf(json_loads(req.contracts.s).val.l)
  /\ pc' = "reordered"
  /\ UNCHANGED <<now, resolved, out, drivers>>

\* both results are dropped
RespondBoth ==
  /\ pc \in {"bank changed", "reordered", "reduced", "ending dropped"}
  /\ pc' = "idle"
  /\ req' = NoRequest
  /\ resolved' = PyNone
  /\ out' = NoResult
  /\ again' = NoResult
  /\ UNCHANGED <<now, drivers>>

VariantNext ==
  \/ TickIdle
  \/ ReceiveVariant
  \/ ChangeBank
  \/ Reorder
  \/ RespondBoth

VariantSpec == Init /\ [][VariantNext]_vars

\* both calls returned a FeatureResponse
BothReturned == out.raised = "" /\ again.raised = ""

\* C22: the bank is read by the loan sum only: after the bank of one
\* contract is changed, to an excluded code or to any other value, a call
\* that returns gives the tot_claim_cnt_l180d and the day_sinlastloan it
\* gave before, so claims and contract dates of excluded banks still count.
C22_BankConfinedToLoanSum ==
  (pc = "bank changed" /\ BothReturned) =>
    /\ again.tot_claim_cnt_l180d = out.tot_claim_cnt_l180d
    /\ again.day_sinlastloan = out.day_sinlastloan

\* the only contract of the list, summed and counted under its bank, is
\* given an excluded code: the sum falls to -1, its claim and its
\* contract_date still count
C22_Witness ==
  /\ pc = "bank changed"
  /\ Len(Parsed.l) = 1
  /\ Parsed.l[1].d[K_bank] = Bank("L", "O", "M")
  /\ out = FeatureResponse(req.id, 1, 5000, 0)
  /\ again = FeatureResponse(req.id, 1, -1, 0)

\* C26: for a fixed application date and clock, the call on the request with
\* the entries of its contract list in another order ends as the call on
\* the request did: the same three features (the claim count, the loan sum
\* and the day count from the latest contract_date, also when several
\* contracts share it), or an exception in both.
C26_PermutationInvariance == pc = "reordered" => again = out

\* two contracts that share the latest contract_date, one with a claim in
\* the window and one without, summed to 5700, in the other order
C26_Witness ==
  /\ pc = "reordered"
  /\ Len(Parsed.l) = 2
  /\ \A i \in 1..2 : Parsed.l[i].ty = "dict"
  /\ DictGet(Parsed.l[1], K_contract_date, PyNone) = D_on
  /\ DictGet(Parsed.l[2], K_contract_date, PyNone) = D_on
  /\ DictGet(Parsed.l[1], K_loan_summa, PyNone) = PyStr(<<"7", "0", "0">>)
  /\ out = FeatureResponse(req.id, 1, 5700, 0)
  /\ again = out

(***************************************************************************)
(* The early return of calculate_features beside the three reductions: a   *)
(* request is computed, and the reductions of lines 33-37 are then run     *)
(* over its parsed contracts whatever they are.  The application dates     *)
(* reach back to the first days the calendar has.                          *)
(***************************************************************************)
\* lines 33-39 of calculate_features: the three reductions and the response
ThreeReductions(id, contracts, app_date) ==
  LET claims == _calculate_recent_claims(contracts, app_date)
      loans == _calculate_disbursed_loans(contracts)
      days == _calculate_days_since_last_loan(contracts, app_date)
  IN IF claims.exc # "" THEN Failure(claims.exc)
     ELSE IF loans.exc # "" THEN Failure(loans.exc)
     ELSE IF days.exc # "" THEN Failure(days.exc)
     ELSE FeatureResponse(id, claims.v, loans.v, days.v)

\* the reductions a call of calculate_features executes: none on the early
\* return of line 30, else one after the other until one raises
Executed(contracts, app_date) ==
  IF ~Truthy(contracts) THEN {}
  ELSE IF _calculate_recent_claims(contracts, app_date).exc # ""
       THEN {"_calculate_recent_claims"}
  ELSE IF _calculate_disbursed_loans(contracts).exc # ""
       THEN {"_calculate_recent_claims", "_calculate_disbursed_loans"}
  ELSE {"_calculate_recent_claims", "_calculate_disbursed_loans",
        "_calculate_days_since_last_loan"}

\* midnight of 2024-06-29, of the first day of the calendar, of its 180th
\* and of its 181st day, and a text that is no date
ShortDates ==
  { PyStr(IsoDateTime(2024, 6, 29, 0)),
    PyStr(IsoDateTime(1, 1, 1, 0)),
    PyStr(IsoDateTime(1, 6, 29, 0)),
    PyStr(IsoDateTime(1, 6, 30, 0)),
    PyStr(<<"i", "n", "v", "a", "l", "i", "d">>) }

\* contracts that parse to the empty list (null, "", "[]", a text that is
\* no JSON), to a list with a contract, and to "" and {}
ShortContracts ==
  { PyNone,
    PyStr(<<>>),
    PyStr(<<Tok("["), Tok("]")>>),
    PyStr(<<Tok("junk"), Tok("junk")>>),
    PyStr(json_dumps(PyList(<<Contract(D_on, D_on, Bank("0", "0", "1"),
                                       PyInt(5000), PyInt(5000))>>))),
    PyStr(json_dumps(PyList(<<PyDict(<<>>)>>))),
    PyStr(<<TokStr(<<>>)>>),
    PyStr(<<Tok("{"), Tok("}")>>) }

ShortRequests ==
  {ApplicationData(id, d, c) : id \in Ids, d \in ShortDates, c \in ShortContracts}

ReceiveShort ==
  /\ pc = "idle"
  /\ \E app_data \in ShortRequests : Calculate(app_data)

\* the reductions run over what _parse_contracts made of the request
Reduce ==
  /\ pc = "called"
  /\ again' = ThreeReductions(req.id, _parse_contracts(req.contracts), resolved)
  /\ pc' = "reduced"
  /\ UNCHANGED <<now, req, resolved, out, drivers>>

ShortNext ==
  \/ TickIdle
  \/ ReceiveShort
  \/ Reduce
  \/ RespondBoth

ShortSpec == Init /\ [][ShortNext]_vars

\* C23: on an empty contract list the early return of calculate_features
\* gives the FeatureResponse the three reductions give over the empty list,
\* (-3, -1, -1), and executes none of the three.
C23_ShortCircuitEquivalence ==
  (pc = "reduced" /\ Parsed = PyList(<<>>)) =>
    /\ out = Sentinels
    /\ Executed(Parsed, resolved) = {}
    /\ again = out

(***************************************************************************)
(* The two date parsers called on their own: parse_date on texts of one to *)
(* four parts and on values that are no strings, _parse_application_date   *)
(* on a written date and time followed by nothing, by Z or by an offset;   *)
(* and calculate_features on a request whose application_date has such an  *)
(* ending, followed by a call on the request without the ending.           *)
(***************************************************************************)
\* the texts between the dots: days, months and years in and out of range,
\* with one or two digits, with a blank, with a letter, empty
DayParts ==
  { Dig2(0), Dig2(1), Dig2(29), Dig2(30), Dig2(31), Dig2(32),
    <<"1">>, <<" ", "1">>, <<"x">>, <<>> }

MonthParts ==
  { Dig2(0), Dig2(1), Dig2(2), Dig2(4), Dig2(13), <<"2">>, <<" ", "2">> }

YearParts == { Dig4(2024), Dig4(2023), Dig4(0), Dig2(24) }

\* what parse_date is called on: texts of three parts, of one, two and four
\* parts, texts with other separators, and values that are no strings
DateTexts ==
  {PyStr(d \o <<".">> \o m \o <<".">> \o y) :
     d \in DayParts, m \in MonthParts, y \in YearParts}
  \cup
  { PyNone,
    PyStr(<<>>),
    PyInt(0),
    PyInt(20240101),
    PyBool(TRUE),
    PyList(<<>>),
    PyList(<<D_on>>),
    PyDict(<<>>),
    PyStr(Dig4(2024)),
    PyStr(Dig2(1) \o <<".">> \o Dig2(1)),
    PyStr(D_on.s \o <<".">> \o Dig2(1)),
    PyStr(D_on.s \o <<" ">>),
    PyStr(IsoDate(2024, 6, 29)),
    PyStr(Dig2(29) \o <<"/">> \o Dig2(6) \o <<"/">> \o Dig4(2024)) }

\* the written date and time of an application
WallClocks ==
  { IsoDateTime(2024, 6, 29, 0),
    IsoDateTime(2024, 6, 29, 12),
    IsoDateTime(2024, 1, 1, 23),
    IsoDateTime(2023, 12, 31, 0) }

\* "+HH:MM" and "-HH:MM"
Ahead(h, m) == <<"+">> \o Dig2(h) \o <<":">> \o Dig2(m)
Behind(h, m) == <<"-">> \o Dig2(h) \o <<":">> \o Dig2(m)

\* what follows the time: nothing, Z, UTC offsets up to a minute short of a
\* day either way, and 24 hours, which is no UTC offset
Endings ==
  { <<>>, <<"Z">>, Ahead(0, 0), Ahead(5, 30), Behind(8, 0), Ahead(23, 59),
    Behind(23, 59), Ahead(24, 0) }

\* contracts whose features change with the day and the time of the
\* application date
OffsetContracts ==
  { PyNone,
    PyStr(json_dumps(PyList(<<Contract(D_on, D_on, Bank("0", "0", "1"),
                                       PyInt(5000), PyInt(5000))>>))),
    PyStr(json_dumps(PyList(<<Contract(D_180, D_181, Bank("0", "0", "1"),
                                       PyInt(5000), PyInt(5000)),
                              Contract(D_181, Absent, Absent, Absent,
                                       Absent)>>))) }

\* parse_date(date_str) called on its own; resolved is what it returns
ParseDate ==
  /\ pc = "idle"
  /\ \E date_str \in DateTexts :
       /\ req' = [id |-> 0, date_str |-> date_str]
       /\ resolved' = parse_date(date_str)
  /\ pc' = "date parsed"
  /\ UNCHANGED <<now, out, again, drivers>>

\* _parse_application_date called on a written date and time and an ending
ParseWithEnding ==
  /\ pc = "idle"
  /\ \E wall \in WallClocks, ending \in Endings :
       /\ req' = ApplicationData(0, PyStr(wall \o ending), PyNone)
       /\ resolved' = _parse_application_date(PyStr(wall \o ending), ClockAt(now))
  /\ pc' = "parsed"
  /\ UNCHANGED <<now, out, again, drivers>>

\* the datetime of a direct call is dropped
ForgetDate ==
  /\ pc \in {"date parsed", "parsed"}
  /\ pc' = "idle"
  /\ req' = NoRequest
  /\ resolved' = PyNone
  /\ UNCHANGED <<now, out, again, drivers>>

ReceiveWithEnding ==
  /\ pc = "idle"
  /\ \E wall \in WallClocks, ending \in Endings, contracts \in OffsetContracts :
       Calculate(ApplicationData(1234, PyStr(wall \o ending), contracts))

\* the written date and time of an application_date, without its ending
WallClockOf(application_date) == PyStr(SubSeq(application_date.s, 1, 19))

\* the second call, on the request with the ending of its date taken off
DropEnding ==
  /\ pc = "called"
  /\ again' = calculate_features(
                ApplicationData(req.id, WallClockOf(req.application_date),
                                req.contracts),
                ClockAt(now))
  /\ pc' = "ending dropped"
  /\ UNCHANGED <<now, req, resolved, out, drivers>>

DateNext ==
  \/ TickIdle
  \/ ParseDate
  \/ ParseWithEnding
  \/ ForgetDate
  \/ ReceiveWithEnding
  \/ DropEnding
  \/ RespondBoth

DateSpec == Init /\ [][DateNext]_vars

\* the text of a number of one of the given widths
IsNumeral(p, widths) ==
  Len(p) \in widths /\ \A i \in 1..Len(p) : IsDigit(p[i])

\* the text of a day: one or two digits, or one digit after a blank
IsDayText(p) ==
  \/ IsNumeral(p, {1, 2})
  \/ Len(p) = 2 /\ p[1] = " " /\ IsDigit(p[2])

DayNumber(p) == IF p[1] = " " THEN DecVal(<<p[2]>>) ELSE DecVal(p)

\* the argument is a string of exactly three parts between dots that are a
\* day, a month and a four-digit year of a date the calendar has
FormsCalendarDate(x) ==
  /\ x.ty = "str"
  /\ Len(Split(x.s, ".")) = 3
  /\ LET parts == Split(x.s, ".") IN
       /\ IsDayText(parts[1])
       /\ IsNumeral(parts[2], {1, 2})
       /\ IsNumeral(parts[3], {4})
       /\ DecVal(parts[3]) \in 1..9999
       /\ DecVal(parts[2]) \in 1..12
       /\ DayNumber(parts[1]) \in 1..DaysInMonth(DecVal(parts[3]), DecVal(parts[2]))

\* midnight of the day the three parts name
CalendarDate(x) ==
  LET parts == Split(x.s, ".") IN
    PyDatetime(Ymd2Ord(DecVal(parts[3]), DecVal(parts[2]), DayNumber(parts[1])), 0)

\* C24: parse_date returns a date, naive and at midnight, exactly when its
\* argument is a string that splits on "." into exactly three parts forming
\* a date of the calendar (day, month, year); for the empty string, a
\* missing value, a value that is no string, another number of parts or a
\* day or month out of range it returns None, and it never raises.
C24_DateMicroParser ==
  pc = "date parsed" =>
    IF FormsCalendarDate(req.date_str)
    THEN resolved = CalendarDate(req.date_str)
    ELSE resolved = PyNone

\* parse_date was called on 32.13.2023 and returned None
C24_Witness ==
  /\ pc = "date parsed"
  /\ req.date_str = D_bad
  /\ resolved = PyNone

\* parse_date was called on 29.02.2024 and returned that day
C24_WitnessLeapDay ==
  /\ pc = "date parsed"
  /\ req.date_str = DMY(29, 2, 2024)
  /\ resolved = PyDatetime(Ymd2Ord(2024, 2, 29), 0)

\* the application_date ends with Z or with an offset of less than a day
HasUtcOffset(application_date) ==
  LET s == application_date.s IN
    \/ Len(s) = 20 /\ s[20] = "Z"
    \/ /\ Len(s) = 25
       /\ s[20] \in {"+", "-"}
       /\ DecVal(SubSeq(s, 21, 22)) < 24
       /\ DecVal(SubSeq(s, 24, 25)) < 60

\* the date and time as they are written in the first 19 characters
Written(application_date) ==
  LET s == application_date.s IN
    PyDatetime(Ymd2Ord(DecVal(SubSeq(s, 1, 4)), DecVal(SubSeq(s, 6, 7)),
                       DecVal(SubSeq(s, 9, 10))),
               DecVal(SubSeq(s, 12, 13)) * 3600 + DecVal(SubSeq(s, 15, 16)) * 60
                 + DecVal(SubSeq(s, 18, 19)))

\* C25: _parse_application_date reads a trailing Z as +00:00 and, for any
\* UTC offset, returns the written date and time with the offset dropped,
\* not converted; the same written date and time with Z, with an offset or
\* with neither resolves to the same naive date-time, and the call gives
\* the same features.
C25_OffsetStripping ==
  /\ (pc \in {"parsed", "called", "ending dropped"}
      /\ HasUtcOffset(req.application_date))
       => resolved = Written(req.application_date)
  /\ (pc = "ending dropped" /\ HasUtcOffset(req.application_date))
       => again = out

\* a request dated 2024-06-29T00:00:00+05:30 with a claim and a contract of
\* that day: both are counted as of the day itself, with and without the
\* offset (in UTC the application would fall on the evening before)
C25_Witness ==
  /\ pc = "ending dropped"
  /\ req.application_date = PyStr(IsoDateTime(2024, 6, 29, 0) \o Ahead(5, 30))
  /\ resolved = PyDatetime(Ymd2Ord(2024, 6, 29), 0)
  /\ out = FeatureResponse(req.id, 1, 5000, 0)
  /\ again = out

====
